---- MODULE Spec2Model ----
(***************************************************************************)
(* Model of SensorDataScraper.py: a scheduler thread that scrapes seven    *)
(* dashboard tables, mirrors the rows to a CSV file, regroups them into a  *)
(* JSON snapshot file, and a FastAPI reader that serves that file.         *)
(*                                                                         *)
(* Files are modelled by their content.  The JSON file is a sequence of    *)
(* tokens as json.dump emits them, so that a reader can see the file       *)
(* between open(..., "w") (which truncates) and the last write.  CSV       *)
(* column order is not modelled: read_csv addresses columns by name.       *)
(***************************************************************************)
EXTENDS Integers, Sequences, FiniteSets, TLC

\* ------------------------------------------------------------------ bounds
\* longest page (number of <tr> rows over all tables) scraped in one cycle
MaxRows == 2
\* number of scheduler-loop cycles explored after start-up
MaxCycles == 2

\* ------------------------------------------------------- program constants
\* wait_for_page_load(driver, url, max_retries=3)
max_retries == 3

\* SENSOR_CATEGORIES, abridged to the first station(s) of every category and
\* one station ("Phil-Am") that several categories share
SENSOR_CATEGORIES ==
    [ rain_gauge           |-> <<"QCPU", "Phil-Am">>,
      flood_sensors        |-> <<"North Fairview">>,
      street_flood_sensors |-> <<"N.S. Amoranto Street", "Phil-Am">>,
      flood_risk_index     |-> <<"N.S. Amoranto Street", "Phil-Am">>,
      earthquake_sensors   |-> <<"QCDRRMO">> ]

RosterCategories == DOMAIN SENSOR_CATEGORIES

\* keys of the dict `categorized` that convert_csv_to_json builds, in order
CategorizedKeys ==
    << "rain_gauge", "flood_sensors", "street_flood_sensors",
       "flood_risk_index", "river_flow_sensor", "earthquake_sensors" >>

\* ------------------------------------------------------------ cell values
\* a value read back from the CSV: text, number or pandas' missing value
Str(t) == [kind |-> "str", text |-> t]
Num(t) == [kind |-> "num", text |-> t]
NaN    == [kind |-> "nan", text |-> ""]

\* texts pandas.read_csv turns into NaN (default na_values, abridged)
NAStrings == {"", "N/A"}
\* texts pandas.read_csv can parse as a number
NumericTexts == {"1.5"}

Range(s) == { s[i] : i \in DOMAIN s }

\* ------------------------------------------------------------ the web page
\* one <tr> of the page: the index of its <table> and the texts of its <td>s
\* (WebElement.text stripped)
Row(t, name, n, fill) ==
    [table |-> t, cells |-> [i \in 1..n |-> IF i = 1 THEN name ELSE fill]]

\* rows the dashboard is taken to serve: roster and non-roster stations,
\* short rows, blank cells, numeric and textual readings, a repeated station
PageRows ==
    { Row(1, "QCPU", 4, "1.5"),
      Row(2, "Ghost", 2, "High"),
      Row(3, "North Fairview", 3, "1.5"),
      Row(3, "North Fairview", 4, "1.5"),
      Row(4, "Phil-Am", 5, ""),
      Row(4, "Phil-Am", 5, "High"),
      Row(5, "Phil-Am", 3, "1.5"),
      Row(6, "Ghost", 4, "1.5"),
      Row(7, "QCDRRMO", 3, "1.5") }

\* a page lists its tables in document order
Pages ==
    { p \in UNION { [1..n -> PageRows] : n \in 0..MaxRows } :
        \A i \in 1..Len(p) - 1 : p[i].table <= p[i + 1].table }

\* the pages the dashboard serves while the whole program runs: a roster and
\* a non-roster station, a row of blank cells, a flood row of three cells,
\* and a page whose only row is too short to be read
DashboardPages ==
    { << Row(1, "QCPU", 4, "1.5"), Row(2, "Ghost", 2, "High") >>,
      << Row(4, "Phil-Am", 5, "") >>,
      << Row(3, "North Fairview", 3, "1.5") >>,
      << Row(5, "Phil-Am", 3, "1.5") >> }

\* ------------------------------------------------------- scrape_sensor_data
\* the `if len(cols) >= k` guard of every table loop
MinCols(t) ==
    CASE t = 1 -> 4 [] t = 2 -> 2 [] t = 3 -> 3 [] t = 4 -> 5
      [] t = 5 -> 4 [] t = 6 -> 3 [] t = 7 -> 3

\* the highest cols[i] the loop body reads, as a column count
ColsRead(t) ==
    CASE t = 1 -> 4 [] t = 2 -> 2 [] t = 3 -> 4 [] t = 4 -> 5
      [] t = 5 -> 4 [] t = 6 -> 4 [] t = 7 -> 3

\* the dict appended for a row of table t; c is cols, 1-based
RowRecord(t, c) ==
    CASE t = 1 -> [x \in {"CATEGORY", "SENSOR NAME", "OBS TIME", "NORMAL LEVEL", "CURRENT"} |->
                     CASE x = "CATEGORY" -> "rain_gauge" [] x = "SENSOR NAME" -> c[1]
                       [] x = "OBS TIME" -> c[2] [] x = "NORMAL LEVEL" -> c[4]
                       [] x = "CURRENT" -> c[3]]
      [] t = 2 -> [x \in {"CATEGORY", "SENSOR NAME", "CURRENT"} |->
                     CASE x = "CATEGORY" -> "rain_gauge_nowcast" [] x = "SENSOR NAME" -> c[1]
                       [] x = "CURRENT" -> c[2]]
      [] t = 3 -> [x \in {"CATEGORY", "SENSOR NAME", "NORMAL LEVEL", "CURRENT"} |->
                     CASE x = "CATEGORY" -> "flood_sensors" [] x = "SENSOR NAME" -> c[1]
                       [] x = "NORMAL LEVEL" -> c[3] [] x = "CURRENT" -> c[4]]
      [] t = 4 -> [x \in {"CATEGORY", "SENSOR NAME", "NORMAL LEVEL", "CURRENT", "DESCRIPTION"} |->
                     CASE x = "CATEGORY" -> "street_flood_sensors" [] x = "SENSOR NAME" -> c[1]
                       [] x = "NORMAL LEVEL" -> c[3] [] x = "CURRENT" -> c[4]
                       [] x = "DESCRIPTION" -> c[5]]
      [] t = 5 -> [x \in {"CATEGORY", "SENSOR NAME", "OBS TIME", "NORMAL LEVEL", "CURRENT"} |->
                     CASE x = "CATEGORY" -> "flood_risk_index" [] x = "SENSOR NAME" -> c[1]
                       [] x = "OBS TIME" -> c[2] [] x = "NORMAL LEVEL" -> c[4]
                       [] x = "CURRENT" -> c[3]]
      [] t = 6 -> [x \in {"CATEGORY", "SENSOR NAME", "NORMAL LEVEL", "CURRENT"} |->
                     CASE x = "CATEGORY" -> "river_flow_sensor" [] x = "SENSOR NAME" -> c[1]
                       [] x = "NORMAL LEVEL" -> c[4] [] x = "CURRENT" -> c[3]]
      [] t = 7 -> [x \in {"CATEGORY", "SENSOR NAME", "OBS TIME", "CURRENT"} |->
                     CASE x = "CATEGORY" -> "earthquake_sensors" [] x = "SENSOR NAME" -> c[1]
                       [] x = "OBS TIME" -> c[2] [] x = "CURRENT" -> c[3]]

\* a row passes the guard but the body indexes past the end of cols
RowRaises(r) ==
    /\ Len(r.cells) >= MinCols(r.table)
    /\ Len(r.cells) < ColsRead(r.table)

RECURSIVE ExtractRows(_)
\* sensor_data after the seven table loops over a page none of whose rows raises
ExtractRows(p) ==
    IF p = <<>> THEN <<>>
    ELSE IF Len(Head(p).cells) >= MinCols(Head(p).table)
         THEN <<RowRecord(Head(p).table, Head(p).cells)>> \o ExtractRows(Tail(p))
         ELSE ExtractRows(Tail(p))

\* Extract, without the emptiness check of lines 231-232
Extract_AllowsEmpty(p) ==
    IF \E i \in 1..Len(p) : RowRaises(p[i])
    THEN [ok |-> FALSE, error |-> "IndexError", data |-> <<>>]
    ELSE [ok |-> TRUE, error |-> "", data |-> ExtractRows(p)]

\* outcome of lines 142-232: the records, or the exception raised
Extract(p) ==
    IF \E i \in 1..Len(p) : RowRaises(p[i])
    THEN [ok |-> FALSE, error |-> "IndexError", data |-> <<>>]
    ELSE IF ExtractRows(p) = <<>>
         THEN [ok |-> FALSE, error |-> "ValueError", data |-> <<>>]
         ELSE [ok |-> TRUE, error |-> "", data |-> ExtractRows(p)]

\* ------------------------------------------------------------------ save_csv
\* the CSV mirror: one column per key any record has, a missing key left blank
CsvColumns(sensor_data) ==
    UNION { DOMAIN sensor_data[i] : i \in 1..Len(sensor_data) }

CsvOf(sensor_data) ==
    [ columns |-> CsvColumns(sensor_data),
      lines   |-> [ i \in 1..Len(sensor_data) |->
                      [ c \in CsvColumns(sensor_data) |->
                          IF c \in DOMAIN sensor_data[i] THEN sensor_data[i][c] ELSE "" ] ] ]

\* ------------------------------------------------------- convert_csv_to_json
\* pd.read_csv: blank and NA texts become NaN; a column whose other texts
\* all parse as numbers becomes numeric, any other column keeps its texts
ColumnIsNumeric(csv, c) ==
    \A i \in 1..Len(csv.lines) :
        csv.lines[i][c] \in NAStrings \cup NumericTexts

ReadCell(csv, i, c) ==
    IF csv.lines[i][c] \in NAStrings THEN NaN
    ELSE IF ColumnIsNumeric(csv, c) THEN Num(csv.lines[i][c])
    ELSE Str(csv.lines[i][c])

\* row[c]
RowAt(csv, i, c) == ReadCell(csv, i, c)

\* row.get(c, "")
RowGet(csv, i, c) ==
    IF c \in csv.columns THEN ReadCell(csv, i, c) ELSE Str("")

\* the key under which a CATEGORY value is filed
TargetKey(category) ==
    IF category = "rain_gauge_nowcast" THEN "rain_gauge" ELSE category

\* the fields an entry of a key of `categorized` is given besides SENSOR NAME
EntryFields(key) ==
    CASE key = "rain_gauge"           -> {"CURRENT"}
      [] key = "flood_sensors"        -> {"NORMAL LEVEL", "CURRENT"}
      [] key = "street_flood_sensors" -> {"NORMAL LEVEL", "CURRENT", "DESCRIPTION"}
      [] key = "flood_risk_index"     -> {"NORMAL LEVEL", "CURRENT"}
      [] key = "river_flow_sensor"    -> {"NORMAL LEVEL", "CURRENT"}
      [] key = "earthquake_sensors"   -> {"CURRENT"}

\* the dict appended for CSV line i
EntryOf(csv, i) ==
    [ f \in {"SENSOR NAME"} \cup EntryFields(TargetKey(csv.lines[i]["CATEGORY"])) |->
        IF f = "SENSOR NAME" THEN RowAt(csv, i, f) ELSE RowGet(csv, i, f) ]

RECURSIVE EntriesFrom(_, _, _)
\* the entries filed under key by lines i.. of the CSV, in line order
EntriesFrom(csv, key, i) ==
    IF i > Len(csv.lines) THEN <<>>
    ELSE IF TargetKey(csv.lines[i]["CATEGORY"]) = key
         THEN <<EntryOf(csv, i)>> \o EntriesFrom(csv, key, i + 1)
         ELSE EntriesFrom(csv, key, i + 1)

\* `categorized` after the loop over df.iterrows()
Categorize(csv) ==
    [ key \in Range(CategorizedKeys) |-> EntriesFrom(csv, key, 1) ]

\* ------------------------------------------------------- json.dump/json.load
TokOpen      == [t |-> "{"]
TokClose     == [t |-> "}"]
TokKey(k)    == [t |-> "key", key |-> k]
TokEntry(e)  == [t |-> "entry", entry |-> e]

RECURSIVE DumpKeys(_, _)
\* the text of the members of doc, in the order of keys
DumpKeys(doc, keys) ==
    IF keys = <<>> THEN <<>>
    ELSE IF Head(keys) \in DOMAIN doc
         THEN <<TokKey(Head(keys))>>
                \o [i \in 1..Len(doc[Head(keys)]) |-> TokEntry(doc[Head(keys)][i])]
                \o DumpKeys(doc, Tail(keys))
         ELSE DumpKeys(doc, Tail(keys))

\* json.dump(doc, f, indent=4): what is written to f, write by write
JsonDump(doc) == <<TokOpen>> \o DumpKeys(doc, CategorizedKeys) \o <<TokClose>>

\* the text is one complete JSON object
WellFormed(text) ==
    /\ Len(text) >= 2
    /\ text[1] = TokOpen
    /\ text[Len(text)] = TokClose
    /\ \A i \in 2..Len(text) - 1 : text[i].t \in {"key", "entry"}
    /\ Len(text) > 2 => text[2].t = "key"

RECURSIVE EntriesAfter(_, _)
\* the array that follows a key: the entries from position i up to the next key
EntriesAfter(text, i) ==
    IF i > Len(text) \/ text[i].t # "entry" THEN <<>>
    ELSE <<text[i].entry>> \o EntriesAfter(text, i + 1)

\* json.load of a well-formed text
JsonLoad(text) ==
    [ k \in { text[i].key : i \in { j \in 1..Len(text) : text[j].t = "key" } } |->
        EntriesAfter(text, 1 + CHOOSE j \in 1..Len(text) : text[j].t = "key" /\ text[j].key = k) ]

\* ------------------------------------------------------------------- files
AbsentFile == [exists |-> FALSE, text |-> <<>>]
FileOf(text) == [exists |-> TRUE, text |-> text]

AbsentCsv == [exists |-> FALSE, columns |-> {}, lines |-> <<>>]
CsvFileOf(csv) == [exists |-> TRUE, columns |-> csv.columns, lines |-> csv.lines]

\* {key: [] for key in SENSOR_CATEGORIES.keys()}
Skeleton == [ k \in RosterCategories |-> <<>> ]

\* the snapshot a page yields when it is scraped and persisted without error
SnapshotOf(p) == Categorize(CsvOf(Extract(p).data))

\* the sensor_data.json shipped next to the script, when there is one
DEFAULT_SNAPSHOT == SnapshotOf(<<Row(1, "QCPU", 4, "1.5")>>)

\* a /tmp/sensor_data.json left by an earlier run of the process
LeftoverSnapshot == SnapshotOf(<<Row(7, "QCDRRMO", 3, "1.5")>>)

\* ------------------------------------------------------------ get_sensor_data
NoBody == [ k \in {} |-> <<>> ]

\* the response of GET /api/sensor-data for a state of the snapshot file:
\* the parsed file, 404 when it does not exist, an unhandled
\* JSONDecodeError (500) when it does not parse
get_sensor_data(file) ==
    IF ~file.exists THEN [status |-> 404, body |-> NoBody]
    ELSE IF WellFormed(file.text) THEN [status |-> 200, body |-> JsonLoad(file.text)]
    ELSE [status |-> 500, body |-> NoBody]

\* -------------------------------------------------------------------- state
VARIABLES
    pc,            \* where the thread that scrapes is: the importing thread, then scraper_thread
    mode,          \* "boot": module-level start-up code; "steady": start_auto_scraper
    jsonFile,      \* SENSOR_DATA_FILE
    csvFile,       \* CSV_FILE_PATH
    bundled,       \* DEFAULT_SENSOR_DATA_FILE exists
    driver,        \* scrape_sensor_data's driver: "none", "open", "closed" or "quit_failed"
    attempt,       \* failed attempts of wait_for_page_load so far
    page,          \* the page the driver has loaded
    sensor_data,   \* scrape_sensor_data's sensor_data
    categorized,   \* the dict being dumped to SENSOR_DATA_FILE
    err,           \* the exception scrape_sensor_data is raising, "" when none
    startupError,  \* the start-up code's outer handler ran
    cycles,        \* iterations of start_auto_scraper's loop started
    serving,       \* the API accepts requests
    response,      \* the last response of get_sensor_data
    prevJson,      \* SENSOR_DATA_FILE when the running cycle began
    quits          \* calls of driver.quit() made by the running cycle

vars == << pc, mode, jsonFile, csvFile, bundled, driver, attempt, page, sensor_data,
           categorized, err, startupError, cycles, serving, response, prevJson, quits >>

NoResponse == [status |-> 0, body |-> NoBody]

Init ==
    /\ pc = "init_check"
    /\ mode = "boot"
    /\ jsonFile \in {AbsentFile, FileOf(JsonDump(LeftoverSnapshot))}
    /\ csvFile = AbsentCsv
    /\ bundled \in BOOLEAN
    /\ driver = "none"
    /\ attempt = 0
    /\ page = <<>>
    /\ sensor_data = <<>>
    /\ categorized = NoBody
    /\ err = ""
    /\ startupError = FALSE
    /\ cycles = 0
    /\ serving = FALSE
    /\ response = NoResponse
    /\ prevJson = jsonFile
    /\ quits = 0

\* entry of scrape_sensor_data: driver = None
EnterScrape ==
    /\ pc' = "setup"
    /\ driver' = "none"
    /\ attempt' = 0
    /\ err' = ""
    /\ prevJson' = jsonFile
    /\ quits' = 0

\* line 340: if not os.path.exists(SENSOR_DATA_FILE)
InitCheck ==
    /\ pc = "init_check"
    /\ IF jsonFile.exists
       THEN pc' = "start_thread" /\ UNCHANGED <<driver, attempt, err, prevJson, quits>>
       ELSE EnterScrape
    /\ UNCHANGED <<mode, jsonFile, csvFile, bundled, page, sensor_data, categorized,
                   startupError, cycles, serving, response>>

\* line 134: setup_chrome_driver() returns a driver or re-raises
SetupDriver ==
    /\ pc = "setup"
    /\ \/ driver' = "open" /\ pc' = "load" /\ err' = err
       \/ driver' = "none" /\ pc' = "finally" /\ err' = "WebDriverException"
    /\ UNCHANGED <<mode, jsonFile, csvFile, bundled, attempt, page, sensor_data,
                   categorized, startupError, cycles, serving, response, prevJson, quits>>

\* LoadAttempt, with the re-raise test of line 124 off by one
\* (attempt == max_retries), so that the loop runs out instead of raising
LoadAttempt_OffByOne ==
    /\ pc = "load"
    /\ IF attempt < max_retries
       THEN \/ \E p \in DashboardPages :
                 /\ Len(p) >= 1
                 /\ page' = p
                 /\ pc' = "extract"
                 /\ UNCHANGED <<attempt, err>>
            \/ /\ attempt' = attempt + 1
               /\ IF attempt = max_retries
                  THEN pc' = "finally" /\ err' = "TimeoutException"
                  ELSE pc' = "load" /\ err' = err
               /\ page' = page
       ELSE /\ pc' = "finally"
            /\ err' = "TimeoutError"
            /\ UNCHANGED <<attempt, page>>
    /\ UNCHANGED <<mode, jsonFile, csvFile, bundled, driver, sensor_data, categorized,
                   startupError, cycles, serving, response, prevJson, quits>>

\* one iteration of wait_for_page_load's loop: the page loads with at least
\* one "table tbody tr", or the attempt fails and the last failure is raised;
\* when the loop runs out, wait_for_page_load returns False and line 139
\* raises TimeoutError
LoadAttempt ==
    /\ pc = "load"
    /\ IF attempt < max_retries
       THEN \/ \E p \in DashboardPages :
                 /\ Len(p) >= 1
                 /\ page' = p
                 /\ pc' = "extract"
                 /\ UNCHANGED <<attempt, err>>
            \/ /\ attempt' = attempt + 1
               /\ IF attempt = max_retries - 1
                  THEN pc' = "finally" /\ err' = "TimeoutException"
                  ELSE pc' = "load" /\ err' = err
               /\ page' = page
       ELSE /\ pc' = "finally"
            /\ err' = "TimeoutError"
            /\ UNCHANGED <<attempt, page>>
    /\ UNCHANGED <<mode, jsonFile, csvFile, bundled, driver, sensor_data, categorized,
                   startupError, cycles, serving, response, prevJson, quits>>

\* lines 142-232: the seven table loops and the emptiness check
ExtractStep ==
    /\ pc = "extract"
    /\ IF Extract(page).ok
       THEN sensor_data' = Extract(page).data /\ pc' = "save_csv" /\ err' = err
       ELSE sensor_data' = <<>> /\ pc' = "finally" /\ err' = Extract(page).error
    /\ page' = <<>>
    /\ UNCHANGED <<mode, jsonFile, csvFile, bundled, driver, attempt, categorized,
                   startupError, cycles, serving, response, prevJson, quits>>

\* line 235: save_csv(sensor_data); to_csv may fail before or after truncating
SaveCsv ==
    /\ pc = "save_csv"
    /\ \/ csvFile' = CsvFileOf(CsvOf(sensor_data)) /\ pc' = "read_csv" /\ err' = err
       \/ /\ csvFile' \in {csvFile, CsvFileOf([columns |-> {}, lines |-> <<>>])}
          /\ pc' = "finally"
          /\ err' = "OSError"
    /\ UNCHANGED <<mode, jsonFile, bundled, driver, attempt, page, sensor_data, categorized,
                   startupError, cycles, serving, response, prevJson, quits>>

\* ConvertCsv, except that a key left without rows keeps the entries of the
\* snapshot published before
ConvertCsv_KeepsOldEntries ==
    /\ pc = "read_csv"
    /\ \/ /\ categorized' =
                [ k \in Range(CategorizedKeys) |->
                    IF /\ Categorize(csvFile)[k] = <<>>
                       /\ WellFormed(jsonFile.text)
                       /\ k \in DOMAIN JsonLoad(jsonFile.text)
                    THEN JsonLoad(jsonFile.text)[k]
                    ELSE Categorize(csvFile)[k] ]
          /\ pc' = "open_json"
          /\ err' = err
       \/ categorized' = categorized /\ pc' = "finally" /\ err' = "OSError"
    /\ UNCHANGED <<mode, jsonFile, csvFile, bundled, driver, attempt, page, sensor_data,
                   startupError, cycles, serving, response, prevJson, quits>>

\* lines 256-310: read the CSV back and regroup its rows
ConvertCsv ==
    /\ pc = "read_csv"
    /\ \/ categorized' = Categorize(csvFile) /\ pc' = "open_json" /\ err' = err
       \/ categorized' = categorized /\ pc' = "finally" /\ err' = "OSError"
    /\ UNCHANGED <<mode, jsonFile, csvFile, bundled, driver, attempt, page, sensor_data,
                   startupError, cycles, serving, response, prevJson, quits>>

\* line 313: open(SENSOR_DATA_FILE, "w") truncates the file in place
OpenJson ==
    /\ pc = "open_json"
    /\ \/ jsonFile' = FileOf(<<>>) /\ pc' = "dump" /\ err' = err /\ categorized' = categorized
       \/ jsonFile' = jsonFile /\ pc' = "finally" /\ err' = "OSError" /\ categorized' = NoBody
    /\ UNCHANGED <<mode, csvFile, bundled, driver, attempt, page, sensor_data,
                   startupError, cycles, serving, response, prevJson, quits>>

\* line 314: json.dump writes the document piece by piece; a failed write
\* leaves what was written so far
DumpJson ==
    /\ pc = "dump"
    /\ IF Len(jsonFile.text) < Len(JsonDump(categorized))
       THEN \/ /\ jsonFile' = FileOf(Append(jsonFile.text,
                                            JsonDump(categorized)[Len(jsonFile.text) + 1]))
               /\ UNCHANGED <<pc, err, categorized>>
            \/ /\ pc' = "finally"
               /\ err' = "OSError"
               /\ categorized' = NoBody
               /\ jsonFile' = jsonFile
       ELSE /\ pc' = "finally"
            /\ categorized' = NoBody
            /\ UNCHANGED <<jsonFile, err>>
    /\ UNCHANGED <<mode, csvFile, bundled, driver, attempt, page, sensor_data,
                   startupError, cycles, serving, response, prevJson, quits>>

\* Finally, with driver.quit() at the end of the try block instead of in the
\* finally clause: the driver is quit only when the cycle raised nothing
Finally_QuitOnSuccessOnly ==
    /\ pc = "finally"
    /\ IF driver = "open" /\ err = ""
       THEN /\ quits' = quits + 1
            /\ \/ driver' = "closed"
               \/ driver' = "quit_failed"
       ELSE UNCHANGED <<driver, quits>>
    /\ pc' = "return"
    /\ UNCHANGED <<mode, jsonFile, csvFile, bundled, attempt, page, sensor_data,
                   categorized, err, startupError, cycles, serving, response, prevJson>>

\* lines 242-247: quit the driver if there is one; a quit that raises is
\* logged and the exception of the try block, if any, goes on
Finally ==
    /\ pc = "finally"
    /\ IF driver = "open"
       THEN /\ quits' = quits + 1
            /\ \/ driver' = "closed"
               \/ driver' = "quit_failed"
       ELSE UNCHANGED <<driver, quits>>
    /\ pc' = "return"
    /\ UNCHANGED <<mode, jsonFile, csvFile, bundled, attempt, page, sensor_data,
                   categorized, err, startupError, cycles, serving, response, prevJson>>

\* Return, except that the scheduler loop's handler resets the snapshot file
\* to the empty document when the cycle raised
Return_ResetsOnFailure ==
    /\ pc = "return"
    /\ pc' = IF mode = "steady" THEN "sleep"
             ELSE IF err = "" THEN "start_thread" ELSE "fallback"
    /\ jsonFile' = IF mode = "steady" /\ err # ""
                   THEN FileOf(JsonDump(Skeleton)) ELSE jsonFile
    /\ sensor_data' = <<>>
    /\ UNCHANGED <<mode, csvFile, bundled, driver, attempt, page,
                   categorized, err, startupError, cycles, serving, response, prevJson, quits>>

\* Return, except that start_auto_scraper does not catch the exception of a
\* failed cycle, which ends scraper_thread
Return_PropagatesFailure ==
    /\ pc = "return"
    /\ pc' = IF mode = "steady" THEN (IF err = "" THEN "sleep" ELSE "thread_dead")
             ELSE IF err = "" THEN "start_thread" ELSE "fallback"
    /\ sensor_data' = <<>>
    /\ UNCHANGED <<mode, jsonFile, csvFile, bundled, driver, attempt, page,
                   categorized, err, startupError, cycles, serving, response, prevJson, quits>>

\* scrape_sensor_data returns or re-raises to its caller, the start-up code
\* (lines 343-345) or start_auto_scraper (lines 331-334); its locals are gone
Return ==
    /\ pc = "return"
    /\ pc' = IF mode = "steady" THEN "sleep"
             ELSE IF err = "" THEN "start_thread" ELSE "fallback"
    /\ sensor_data' = <<>>
    /\ UNCHANGED <<mode, jsonFile, csvFile, bundled, driver, attempt, page,
                   categorized, err, startupError, cycles, serving, response, prevJson, quits>>

\* Fallback, except that nothing is written when no file is bundled
Fallback_WithoutSkeleton ==
    /\ pc = "fallback"
    /\ pc' = "start_thread"
    /\ IF bundled
       THEN \/ jsonFile' = FileOf(JsonDump(DEFAULT_SNAPSHOT)) /\ startupError' = startupError
            \/ jsonFile' \in {jsonFile, FileOf(<<>>)} /\ startupError' = TRUE
       ELSE jsonFile' = jsonFile /\ startupError' = startupError
    /\ UNCHANGED <<mode, csvFile, bundled, driver, attempt, page, sensor_data, categorized,
                   err, cycles, serving, response, prevJson, quits>>

\* lines 347-354: copy the bundled file, or open the snapshot file for the
\* empty document; an error here reaches the handler of line 356
Fallback ==
    /\ pc = "fallback"
    /\ IF bundled
       THEN \/ /\ jsonFile' = FileOf(JsonDump(DEFAULT_SNAPSHOT))
               /\ UNCHANGED <<startupError, categorized>>
               /\ pc' = "start_thread"
            \/ /\ jsonFile' \in {jsonFile, FileOf(<<>>)}
               /\ startupError' = TRUE
               /\ categorized' = categorized
               /\ pc' = "start_thread"
       ELSE \/ /\ jsonFile' = FileOf(<<>>)
               /\ categorized' = Skeleton
               /\ startupError' = startupError
               /\ pc' = "skeleton_dump"
            \/ /\ jsonFile' = jsonFile
               /\ categorized' = categorized
               /\ startupError' = TRUE
               /\ pc' = "start_thread"
    /\ UNCHANGED <<mode, csvFile, bundled, driver, attempt, page, sensor_data,
                   err, cycles, serving, response, prevJson, quits>>

\* SkeletonDump, without the handler of lines 356-357: a failed write ends
\* the import of the module
SkeletonDump_Uncaught ==
    /\ pc = "skeleton_dump"
    /\ IF Len(jsonFile.text) < Len(JsonDump(categorized))
       THEN \/ /\ jsonFile' = FileOf(Append(jsonFile.text,
                                            JsonDump(categorized)[Len(jsonFile.text) + 1]))
               /\ UNCHANGED <<pc, startupError, categorized>>
            \/ /\ pc' = "import_failed"
               /\ startupError' = TRUE
               /\ categorized' = NoBody
               /\ jsonFile' = jsonFile
       ELSE /\ pc' = "start_thread"
            /\ categorized' = NoBody
            /\ UNCHANGED <<jsonFile, startupError>>
    /\ UNCHANGED <<mode, csvFile, bundled, driver, attempt, page, sensor_data,
                   err, cycles, serving, response, prevJson, quits>>

\* line 354: json.dump of the empty document
SkeletonDump ==
    /\ pc = "skeleton_dump"
    /\ IF Len(jsonFile.text) < Len(JsonDump(categorized))
       THEN \/ /\ jsonFile' = FileOf(Append(jsonFile.text,
                                            JsonDump(categorized)[Len(jsonFile.text) + 1]))
               /\ UNCHANGED <<pc, startupError, categorized>>
            \/ /\ pc' = "start_thread"
               /\ startupError' = TRUE
               /\ categorized' = NoBody
               /\ jsonFile' = jsonFile
       ELSE /\ pc' = "start_thread"
            /\ categorized' = NoBody
            /\ UNCHANGED <<jsonFile, startupError>>
    /\ UNCHANGED <<mode, csvFile, bundled, driver, attempt, page, sensor_data,
                   err, cycles, serving, response, prevJson, quits>>

\* lines 360-361, then the server: the scraper thread starts and the API is served
StartThread ==
    /\ pc = "start_thread"
    /\ pc' = "loop"
    /\ mode' = "steady"
    /\ serving' = TRUE
    /\ UNCHANGED <<jsonFile, csvFile, bundled, driver, attempt, page, sensor_data,
                   categorized, err, startupError, cycles, response, prevJson, quits>>

\* lines 328-331: the loop calls scrape_sensor_data
LoopIteration ==
    /\ pc = "loop"
    /\ cycles < MaxCycles
    /\ cycles' = cycles + 1
    /\ EnterScrape
    /\ UNCHANGED <<mode, jsonFile, csvFile, bundled, page, sensor_data, categorized,
                   startupError, serving, response>>

\* lines 332-335: the exception, if any, is logged; sleep 60 s
Sleep ==
    /\ pc = "sleep"
    /\ pc' = "loop"
    /\ UNCHANGED <<mode, jsonFile, csvFile, bundled, driver, attempt, page, sensor_data,
                   categorized, err, startupError, cycles, serving, response, prevJson, quits>>

\* Reader, except that a request finding no snapshot file runs a scrape
Reader_StartsScrape ==
    /\ serving
    /\ response' = get_sensor_data(jsonFile)
    /\ pc' = IF jsonFile.exists THEN pc ELSE "setup"
    /\ UNCHANGED <<mode, jsonFile, csvFile, bundled, driver, attempt, page,
                   sensor_data, categorized, err, startupError, cycles, serving, prevJson, quits>>

\* lines 319-324: a request is answered from the file as it is now
Reader ==
    /\ serving
    /\ response' = get_sensor_data(jsonFile)
    /\ UNCHANGED <<pc, mode, jsonFile, csvFile, bundled, driver, attempt, page,
                   sensor_data, categorized, err, startupError, cycles, serving, prevJson, quits>>

Next ==
    \/ InitCheck
    \/ SetupDriver
    \/ LoadAttempt
    \/ ExtractStep
    \/ SaveCsv
    \/ ConvertCsv
    \/ OpenJson
    \/ DumpJson
    \/ Finally
    \/ Return
    \/ Fallback
    \/ SkeletonDump
    \/ StartThread
    \/ LoopIteration
    \/ Sleep
    \/ Reader

Spec == Init /\ [][Next]_vars

\* the steps of the importing thread and of scraper_thread: every blocking
\* call in them is bounded by a timeout, so a step that can be taken is taken
SchedulerStep ==
    \/ InitCheck
    \/ SetupDriver
    \/ LoadAttempt
    \/ ExtractStep
    \/ SaveCsv
    \/ ConvertCsv
    \/ OpenJson
    \/ DumpJson
    \/ Finally
    \/ Return
    \/ Fallback
    \/ SkeletonDump
    \/ StartThread
    \/ LoopIteration
    \/ Sleep

SpecFair == Init /\ [][Next]_vars /\ WF_vars(SchedulerStep)

\* ------------------------------------------------- one cycle, over any page
\* a cycle of the scheduler loop at the point where the page has loaded
InitCycle ==
    /\ pc = "extract"
    /\ mode = "steady"
    /\ jsonFile = FileOf(JsonDump(LeftoverSnapshot))
    /\ csvFile = AbsentCsv
    /\ bundled = FALSE
    /\ driver = "open"
    /\ attempt = 0
    /\ page \in { p \in Pages : Len(p) >= 1 }
    /\ sensor_data = <<>>
    /\ categorized = NoBody
    /\ err = ""
    /\ startupError = FALSE
    /\ cycles = 1
    /\ serving = TRUE
    /\ response = NoResponse
    /\ prevJson = jsonFile
    /\ quits = 0

NextCycle ==
    \/ ExtractStep
    \/ SaveCsv
    \/ ConvertCsv
    \/ OpenJson
    \/ DumpJson
    \/ Finally
    \/ Return

SpecCycle == InitCycle /\ [][NextCycle]_vars

\* ================================================================= properties
\* a cycle has just ended without an exception: its snapshot is published
CyclePublished == pc = "return" /\ err = ""

\* the published document
PublishedDoc == JsonLoad(jsonFile.text)

\* station names compared without regard to case
LowerCase(t) ==
    CASE t = "QCPU" -> "qcpu"
      [] t = "Phil-Am" -> "phil-am"
      [] t = "North Fairview" -> "north fairview"
      [] t = "N.S. Amoranto Street" -> "n.s. amoranto street"
      [] t = "QCDRRMO" -> "qcdrrmo"
      [] t = "Ghost" -> "ghost"
      [] OTHER -> t

RosterNames(c) == { LowerCase(SENSOR_CATEGORIES[c][i]) : i \in 1..Len(SENSOR_CATEGORIES[c]) }

AllRosterNames == UNION { RosterNames(c) : c \in RosterCategories }

\* C1: a request answered while a cycle of the scheduler loop is writing the
\* snapshot file gets status 200 with either the complete snapshot the cycle
\* started from or the complete snapshot the cycle is writing.
C1_ReaderSeesWholeSnapshot ==
    [][ (Reader /\ mode = "steady" /\ pc = "dump")
          => /\ response'.status = 200
             /\ \/ response'.body = JsonLoad(prevJson.text)
                \/ response'.body = categorized ]_vars

\* C2: when a cycle of the scheduler loop ends because the driver could not
\* be created or the page load ran out of retries, the snapshot file is what
\* it was when the cycle began.
C2_FetchFailureKeepsSnapshot ==
    ( /\ mode = "steady"
      /\ pc \in {"finally", "return", "sleep"}
      /\ err \in {"WebDriverException", "TimeoutException"} )
        => jsonFile = prevJson

\* C2 witness: the scheduler loop has caught a load failure after three
\* attempts while a complete snapshot was published.
C2_Witness ==
    /\ mode = "steady"
    /\ pc = "sleep"
    /\ err = "TimeoutException"
    /\ attempt = 3
    /\ jsonFile.exists
    /\ WellFormed(jsonFile.text)
    /\ \E k \in DOMAIN JsonLoad(jsonFile.text) : JsonLoad(jsonFile.text)[k] # <<>>

\* C3: when a cycle ends with an error raised by save_csv or
\* convert_csv_to_json, the snapshot file is what it was when the cycle began.
C3_PersistFailureKeepsSnapshot ==
    ( /\ pc \in {"finally", "return", "sleep"}
      /\ err = "OSError" )
        => jsonFile = prevJson

\* C4: in a published snapshot every roster category holds exactly one entry
\* per roster member, in roster order.
C4_RosterCompleteness ==
    CyclePublished =>
        \A c \in RosterCategories :
            /\ c \in DOMAIN PublishedDoc
            /\ Len(PublishedDoc[c]) = Len(SENSOR_CATEGORIES[c])
            /\ \A i \in 1..Len(SENSOR_CATEGORIES[c]) :
                   PublishedDoc[c][i]["SENSOR NAME"] = Str(SENSOR_CATEGORIES[c][i])

\* C5: a scraped row whose station is in no category's roster leaves no entry
\* with that station name in any category of the published snapshot.
C5_NonRosterStationDropped ==
    CyclePublished =>
        \A i \in 1..Len(csvFile.lines) :
            LowerCase(csvFile.lines[i]["SENSOR NAME"]) \notin AllRosterNames
                => \A k \in DOMAIN PublishedDoc : \A j \in 1..Len(PublishedDoc[k]) :
                       PublishedDoc[k][j]["SENSOR NAME"] # Str(csvFile.lines[i]["SENSOR NAME"])

\* the defaults the design documents for a field of a synthesized entry
DocumentedDefaults == { Str("N/A"), Num("0.0"), Str("0.0m") }

\* C6: a roster member of a category that has no row in the scrape still has
\* an entry in that category of the published snapshot, named after it and
\* holding defaults.
C6_AbsentMemberDefaulted ==
    CyclePublished =>
        \A c \in RosterCategories : \A m \in 1..Len(SENSOR_CATEGORIES[c]) :
            ( ~ \E i \in 1..Len(csvFile.lines) :
                  /\ TargetKey(csvFile.lines[i]["CATEGORY"]) = c
                  /\ LowerCase(csvFile.lines[i]["SENSOR NAME"]) = LowerCase(SENSOR_CATEGORIES[c][m]) )
              => \E j \in 1..Len(PublishedDoc[c]) :
                     /\ PublishedDoc[c][j]["SENSOR NAME"] = Str(SENSOR_CATEGORIES[c][m])
                     /\ \A f \in DOMAIN PublishedDoc[c][j] \ {"SENSOR NAME"} :
                            PublishedDoc[c][j][f] \in DocumentedDefaults

\* the fields every entry of a category must carry
CategorySchema(k) == {"SENSOR NAME"} \cup EntryFields(k)

\* C7: every entry of a published snapshot has every field of its category's
\* schema, and none of them is the missing value.
C7_SchemaCompleteness ==
    CyclePublished =>
        \A k \in DOMAIN PublishedDoc : \A j \in 1..Len(PublishedDoc[k]) :
            \A f \in CategorySchema(k) :
                /\ f \in DOMAIN PublishedDoc[k][j]
                /\ PublishedDoc[k][j][f].kind # "nan"

\* C8: a request made while the snapshot file is missing or does not parse is
\* answered with status 200 and every roster category mapped to an empty list.
C8_ReaderFallsBackToEmpty ==
    [][ (Reader /\ (~jsonFile.exists \/ ~WellFormed(jsonFile.text)))
          => /\ response'.status = 200
             /\ \A c \in RosterCategories :
                    c \in DOMAIN response'.body /\ response'.body[c] = <<>> ]_vars

\* start-up is over and the scheduler loop has not yet begun its first cycle
BootFinished ==
    \/ mode = "boot" /\ pc = "start_thread"
    \/ mode = "steady" /\ pc = "loop" /\ cycles = 0

\* the document with every roster category mapped to an empty list
EmptyRosterDoc ==
    [ c \in { "rain_gauge", "flood_sensors", "street_flood_sensors",
              "flood_risk_index", "earthquake_sensors" } |-> <<>> ]

C10_ReaderAlwaysSucceeds ==
    [][ Reader => response'.status = 200 ]_vars

\* the snapshot file has just been written completely by start-up's skeleton
\* strategy
SkeletonPersisted ==
    /\ BootFinished
    /\ ~prevJson.exists
    /\ err # ""
    /\ ~bundled
    /\ ~startupError

\* C11: the top-level keys of a snapshot persisted by a cycle or by the
\* start-up skeleton are exactly the roster's category names.
C11_KeysAreRosterCategories ==
    (CyclePublished \/ SkeletonPersisted)
        => DOMAIN PublishedDoc = { "rain_gauge", "flood_sensors", "street_flood_sensors",
                                   "flood_risk_index", "earthquake_sensors" }

\* C12: in the scheduler loop a cycle that has ended, with or without an
\* exception, is followed by the loop's sleep, and (while the model's cycle
\* budget lasts) by the start of another cycle.
C12_LoopNeverStops ==
    /\ [][ (mode = "steady" /\ pc = "return" /\ pc' # pc) => pc' = "sleep" ]_vars
    /\ (mode = "steady" /\ pc \in {"return", "sleep"} /\ cycles < MaxCycles)
           ~> (pc = "setup")

\* C12 witness: a second cycle of the loop starts although start-up and the
\* first cycle both failed before any snapshot file was created.
C12_Witness ==
    /\ mode = "steady"
    /\ pc = "setup"
    /\ cycles = 2
    /\ startupError
    /\ ~jsonFile.exists

\* the thread that scrapes is inside scrape_sensor_data
InCycle == pc \in { "setup", "load", "extract", "save_csv", "read_csv", "open_json",
                    "dump", "finally", "return" }

\* C13: a request changes neither file nor the scheduler's position; a cycle
\* is entered only from the start-up check or the loop head, never while a
\* cycle is running; and the snapshot file changes only in a step of the
\* thread that scrapes.
C13_OneCycleOneWriter ==
    /\ [][ Reader => UNCHANGED <<jsonFile, csvFile, pc, mode, cycles>> ]_vars
    /\ [][ (InCycle' /\ ~InCycle) => (pc \in {"init_check", "loop"} /\ pc' = "setup") ]_vars
    /\ [][ (pc' = "setup" /\ pc # "setup") => ~InCycle ]_vars
    /\ [][ jsonFile' # jsonFile
             => (pc \in {"open_json", "dump", "fallback", "skeleton_dump"} /\ response' = response) ]_vars

\* C13 witness: a request has been answered while the loop's second cycle is
\* writing the snapshot file.
C13_Witness ==
    /\ mode = "steady"
    /\ cycles = 2
    /\ pc = "dump"
    /\ response.status = 500

\* C14: the snapshot a cycle publishes is the categorization of the records
\* it scraped and of nothing else, whatever the snapshot file and the CSV
\* mirror held before; so a cycle that scrapes the records of the cycle
\* before it publishes the same file again.
C14_SnapshotFromScrapeAlone ==
    CyclePublished =>
        jsonFile = [exists |-> TRUE, text |-> JsonDump(Categorize(CsvOf(sensor_data)))]

\* C14 witness: the loop's second cycle has published, from a non-empty
\* scrape, the very file the cycle before it had published.
C14_Witness ==
    /\ CyclePublished
    /\ mode = "steady"
    /\ cycles = 2
    /\ sensor_data # <<>>
    /\ csvFile.lines # <<>>
    /\ jsonFile = prevJson

\* the rows of the loaded page that have every cell their table's loop reads
ReadableRows == { i \in 1..Len(page) : Len(page[i].cells) >= ColsRead(page[i].table) }

\* C15: extraction never fails on account of a row's number of cells: rows
\* with fewer cells than their table's loop reads are skipped and every other
\* row of the page yields a record.
C15_ShortRowsSkipped ==
    [][ ExtractStep
          => /\ err' # "IndexError"
             /\ ReadableRows # {} => /\ pc' = "save_csv"
                                     /\ Len(sensor_data') = Cardinality(ReadableRows) ]_vars

\* no row of the loaded page passes its table's length guard
NoUsableRows == \A i \in 1..Len(page) : Len(page[i].cells) < MinCols(page[i].table)

\* C16: when the loaded page has no usable row, extraction ends without an
\* exception with an empty record sequence, and the cycle then publishes a
\* snapshot holding an entry for every roster member.
C16_EmptyScrapePublishesDefaults ==
    /\ [][ (ExtractStep /\ NoUsableRows)
             => (pc' = "save_csv" /\ err' = "" /\ sensor_data' = <<>>) ]_vars
    /\ [] ( (CyclePublished /\ sensor_data = <<>>)
              => \A c \in RosterCategories :
                     Len(PublishedDoc[c]) = Len(SENSOR_CATEGORIES[c]) )

C18_BootstrapEndsInSteadyState ==
    /\ <>(mode = "steady" /\ serving)
    /\ [][ mode' # mode
             => (mode = "boot" /\ pc = "start_thread" /\ pc' = "loop" /\ cycles' = 0) ]_vars
    /\ [] (pc = "start_thread" => mode = "boot")
    /\ [] ( (mode = "boot" /\ pc = "start_thread" /\ prevJson.exists)
              => /\ jsonFile = prevJson
                 /\ driver = "none"
                 /\ attempt = 0
                 /\ ~csvFile.exists )

\* C18 witness: the loop has been started although the live cycle and the
\* skeleton write both failed and no snapshot file exists.
C18_Witness ==
    /\ mode = "steady"
    /\ pc = "loop"
    /\ cycles = 0
    /\ startupError
    /\ ~bundled
    /\ ~jsonFile.exists

\* C19: wait_for_page_load makes at most max_retries attempts; a successful
\* attempt ends it at once; after max_retries failed attempts it raises the
\* last failure; its loop never runs out, so it never returns False (which
\* line 139 would turn into TimeoutError).
C19_BoundedRetries ==
    /\ [] ( /\ attempt \in 0..max_retries
            /\ pc = "load" => attempt < max_retries
            /\ pc = "extract" => attempt < max_retries
            /\ err = "TimeoutException" => attempt = max_retries
            /\ err # "TimeoutError" )
    /\ [][ (pc = "load" /\ pc' = "extract") => attempt' = attempt ]_vars
    /\ [][ (pc = "load" /\ pc' = "finally")
             => (attempt = max_retries - 1 /\ attempt' = max_retries
                 /\ err' = "TimeoutException") ]_vars

\* C19 witness: the third attempt has failed and its exception is on its way
\* out of scrape_sensor_data.
C19_Witness ==
    /\ pc = "finally"
    /\ driver = "open"
    /\ err = "TimeoutException"
    /\ attempt = 3

\* C20: when a cycle ends, its driver, if one was created, has been quit
\* exactly once, whatever the cycle's outcome and whether or not quit itself
\* failed; nothing is quit when the driver could not be created; and the
\* finally clause leaves the cycle's exception as it was.
C20_DriverReleased ==
    /\ [] ( /\ quits \in {0, 1}
            /\ pc = "return"
                 => \/ driver = "none" /\ quits = 0 /\ err = "WebDriverException"
                    \/ driver \in {"closed", "quit_failed"} /\ quits = 1
            /\ err = "WebDriverException" => (driver = "none" /\ quits = 0)
            /\ driver = "open" => quits = 0 )
    /\ [][ pc = "finally" => err' = err ]_vars

\* C20 witness: a cycle that failed while persisting has ended, its driver
\* was quit once and the quit raised.
C20_Witness ==
    /\ pc = "return"
    /\ err = "OSError"
    /\ driver = "quit_failed"
    /\ quits = 1

====
